---- MODULE Spec2Model ----
(***************************************************************************)
(* Model of the CasaCore backend: the Database connection manager          *)
(* (src/main.py, src/database.py), the ProductCreate / ProductModel        *)
(* schemas and the two product handlers of src/main.py.                    *)
(*                                                                         *)
(* Numbers stand for themselves (price and stock_quantity are compared     *)
(* with 0 only, never computed with).  A JSON payload is a record whose    *)
(* domain is the set of keys the client sent; a JSON value that may be     *)
(* null is JsonNull or JsonList(items).                                    *)
(* The MongoDB driver and server are the environment: every round trip     *)
(* ends "ok", "error" or "timeout", and a closed client either reopens its *)
(* pool on the next command (older PyMongo) or refuses it (newer PyMongo). *)
(***************************************************************************)
EXTENDS Integers, Sequences, FiniteSets, TLC

\* ---- bounds ----
MaxDocs  == 2   \* inserts issued over a run
MaxSlots == 2   \* create requests in flight at once

Slots == 1..MaxSlots

None == "None"
JsonNull == [json |-> "null"]
JsonList(items) == [json |-> "list", items |-> items]

RequiredFields == {"name", "description", "price", "stock_quantity", "category"}

\* ---- request payloads ----
ExamplePayload ==
    [name |-> "Tiny Thorny", description |-> "A tiny cute cactus.", price |-> 890,
     stock_quantity |-> 50, category |-> "Cactus", image_urls |-> JsonList(<<"https://placehold.co/400x400">>)]

Without(p, f) == [k \in (DOMAIN p) \ {f} |-> p[k]]

\* one payload per case of the schemas: the documented example, the lower
\* bounds with image_urls left out, a negative price, a negative stock,
\* a null image_urls, and a required string / number left out
Payloads ==
    {ExamplePayload,
     Without([ExamplePayload EXCEPT !.price = 0, !.stock_quantity = 0], "image_urls"),
     [ExamplePayload EXCEPT !.price = -1],
     [ExamplePayload EXCEPT !.stock_quantity = -1],
     [ExamplePayload EXCEPT !.image_urls = JsonNull],
     Without(ExamplePayload, "name"),
     Without(ExamplePayload, "price")}

\* datetime.datetime.now(): the stamp the server puts on a document
Now == "now"

DriverOutcomes == {"ok", "error", "timeout"}

VARIABLES
    client,     \* Database.client: None or the Motor client
    db,         \* Database.db: None or the database handle
    pool,       \* the client's connection pool: "none", "open" or "closed"
    phase,      \* lifespan: "startup", "running", "shutdown"
    products,   \* the "products" collection, in insertion order
    oid,        \* ObjectIds generated so far
    req,        \* create requests suspended at an await
    resp,       \* outcome of the operation that finished last
    created,    \* bodies of the 201 responses, in the order they were sent
    ioFailed    \* a round trip to the products collection has failed

vars == <<client, db, pool, phase, products, oid, req, resp, created, ioFailed>>

\* ---- Database (connection manager) ----
\* __init__: the except branch nulls both fields
Database__init__(ok) ==
    IF ok THEN [client |-> "client", db |-> "db", pool |-> "open"]
          ELSE [client |-> None, db |-> None, pool |-> "none"]

ManagerState ==
    IF db = None THEN "Unusable"
    ELSE IF pool = "closed" THEN "Closed" ELSE "Usable"

\* a command sent through the client: a closed pool is reopened by a
\* command that succeeds
PoolAfter(p, outcome) == IF outcome = "ok" THEN "open" ELSE p

get_db_ret(d) == IF d # None THEN d ELSE None

get_product_collection_unchecked(d) == "products"

get_product_collection(d) == IF d # None THEN "products" ELSE None

Init ==
    /\ \E ok \in BOOLEAN :
         LET m == Database__init__(ok) IN
           /\ client = m.client
           /\ db = m.db
           /\ pool = m.pool
    /\ phase = "startup"
    /\ products = <<>>
    /\ oid = 0
    /\ req = [s \in Slots |-> [pc |-> "idle"]]
    /\ resp = [op |-> "none"]
    /\ created = <<>>
    /\ ioFailed = FALSE

\* ---- driver / store ----
HexDigits == <<"0", "1", "2", "3", "4", "5", "6", "7", "8", "9", "a", "b", "c", "d", "e", "f">>

RECURSIVE Hex(_, _)
Hex(n, width) ==
    IF width = 0 THEN <<>>
    ELSE Append(Hex(n \div 16, width - 1), HexDigits[(n % 16) + 1])

\* str(ObjectId): 24 hexadecimal characters
ObjectIdStr(o) == Hex(o, 24)

\* ObjectId(): a value no earlier call returned
NewObjectId(n) == n + 1

insert_one_overwrite(coll, doc) == <<doc>>

insert_one(coll, doc) == Append(coll, doc)

\* find_one returns None when no document matches
NoDocument == [found |-> FALSE]

find_one_latest(coll, id) ==
    IF coll = <<>> THEN NoDocument ELSE coll[Len(coll)]

find_one(coll, id) ==
    LET hits == {i \in 1..Len(coll) : coll[i]._id = id} IN
      IF hits = {} THEN NoDocument
      ELSE coll[CHOOSE i \in hits : \A j \in hits : i <= j]

\* ---- schemas ----
\* ProductCreate: five required fields, no range constraint;
\* image_urls: Optional[List[str]] = []
ProductCreateValid(p) == RequiredFields \subseteq DOMAIN p

ProductCreate(p) ==
    [name |-> p.name, description |-> p.description, price |-> p.price,
     stock_quantity |-> p.stock_quantity, category |-> p.category,
     image_urls |-> IF "image_urls" \in DOMAIN p THEN p.image_urls ELSE JsonList(<<>>)]

\* product_data.model_dump() with created_at stamped
ProductDict(product_data, now) ==
    [name |-> product_data.name, description |-> product_data.description,
     price |-> product_data.price, stock_quantity |-> product_data.stock_quantity,
     category |-> product_data.category, image_urls |-> product_data.image_urls,
     created_at |-> now]

WithId(d, id) ==
    [_id |-> id, name |-> d.name, description |-> d.description, price |-> d.price,
     stock_quantity |-> d.stock_quantity, category |-> d.category,
     image_urls |-> d.image_urls, created_at |-> d.created_at]

\* ProductModel: price ge=0, stock_quantity ge=0, image_urls: List[str]
ProductModelValid(doc) ==
    /\ doc # NoDocument
    /\ doc.price >= 0
    /\ doc.stock_quantity >= 0
    /\ doc.image_urls # JsonNull

\* ProductModel: _id through BeforeValidator(str), the rest as stored
ProductModel(doc) ==
    [_id |-> ObjectIdStr(doc._id), name |-> doc.name, description |-> doc.description,
     price |-> doc.price, stock_quantity |-> doc.stock_quantity, category |-> doc.category,
     image_urls |-> doc.image_urls, created_at |-> doc.created_at]

Inserting == {s \in Slots : req[s].pc = "insert_one"}

\* ---- Database methods ----
get_db ==
    /\ resp' = [op |-> "get_db", ret |-> get_db_ret(db), before |-> ManagerState]
    /\ UNCHANGED <<client, db, pool, phase, products, oid, req, created, ioFailed>>

close_guard_always(c) == TRUE

\* `if self.client:`
close_guard(c) == c # None

Close(opname) ==
    LET called == close_guard(client) IN
      /\ resp' = [op |-> opname, before |-> ManagerState,
                  raised |-> called /\ client = None,
                  released |-> called /\ client # None /\ pool = "open"]
      /\ pool' = IF called /\ client # None THEN "closed" ELSE pool
      /\ UNCHANGED <<client, db, products, oid, req, created, ioFailed>>

close ==
    /\ Close("close")
    /\ UNCHANGED phase

\* an except clause that lets a timeout through
ping_ret_uncaught(d, outcome) ==
    IF d # None
    THEN IF outcome = "ok" THEN [ret |-> TRUE, raised |-> FALSE]
         ELSE IF outcome = "timeout" THEN [ret |-> FALSE, raised |-> TRUE]
         ELSE [ret |-> FALSE, raised |-> FALSE]
    ELSE [ret |-> FALSE, raised |-> FALSE]

\* try / except Exception around the admin "ping" command
ping_ret(d, outcome) ==
    IF d # None
    THEN IF outcome = "ok" THEN [ret |-> TRUE, raised |-> FALSE]
                           ELSE [ret |-> FALSE, raised |-> FALSE]
    ELSE [ret |-> FALSE, raised |-> FALSE]

ping ==
    \E outcome \in DriverOutcomes :
      LET r == ping_ret(db, outcome) IN
        /\ resp' = [op |-> "ping", ret |-> r.ret, raised |-> r.raised,
                    io |-> IF db # None THEN {"ping"} ELSE {},
                    outcome |-> IF db # None THEN outcome ELSE None,
                    before |-> ManagerState]
        /\ pool' = IF db # None THEN PoolAfter(pool, outcome) ELSE pool
        /\ UNCHANGED <<client, db, phase, products, oid, req, created, ioFailed>>

\* ---- lifespan ----
lifespan_startup ==
    /\ phase = "startup"
    /\ phase' = "running"
    /\ resp' = [op |-> "lifespan_startup", ret |-> get_db_ret(db), before |-> ManagerState]
    /\ UNCHANGED <<client, db, pool, products, oid, req, created, ioFailed>>

lifespan_shutdown ==
    /\ phase = "running"
    /\ \A s \in Slots : req[s].pc = "idle"
    /\ phase' = "shutdown"
    /\ Close("lifespan_shutdown")

\* ---- POST /api/products ----
CreateResp(input, status, cause, body, io) ==
    [op |-> "create", input |-> input, status |-> status, cause |-> cause,
     body |-> body, io |-> io]

create_product_begin(s, p) ==
    /\ phase = "running"
    /\ req[s].pc = "idle"
    /\ \A t \in Slots : t < s => req[t].pc # "idle"   \* a request takes the first free slot
    /\ IF ~ProductCreateValid(p)
       THEN /\ resp' = CreateResp(p, 422, "validation", None, {})
            /\ UNCHANGED req
       ELSE IF get_product_collection(db) = None
       THEN /\ resp' = CreateResp(p, 500, "unavailable", None, {})
            /\ UNCHANGED req
       ELSE /\ oid + Cardinality(Inserting) < MaxDocs
            /\ req' = [req EXCEPT ![s] =
                         [pc |-> "insert_one", input |-> p,
                          product_dict |-> ProductDict(ProductCreate(p), Now)]]
            /\ UNCHANGED resp
    /\ UNCHANGED <<client, db, pool, phase, products, oid, created, ioFailed>>

create_product_inserted(s) ==
    /\ req[s].pc = "insert_one"
    /\ \E outcome \in DriverOutcomes :
         IF outcome = "ok"
         THEN LET id == NewObjectId(oid) IN
                /\ oid' = id
                /\ products' = insert_one(products, WithId(req[s].product_dict, id))
                /\ req' = [req EXCEPT ![s] =
                             [pc |-> "find_one", input |-> req[s].input,
                              product_dict |-> req[s].product_dict, inserted_id |-> id]]
                /\ pool' = PoolAfter(pool, outcome)
                /\ UNCHANGED <<resp, ioFailed>>
         ELSE /\ resp' = CreateResp(req[s].input, 500, "storage", None, {"insert_one"})
              /\ req' = [req EXCEPT ![s] = [pc |-> "idle"]]
              /\ ioFailed' = TRUE
              /\ UNCHANGED <<pool, products, oid>>
    /\ UNCHANGED <<client, db, phase, created>>

create_product_read_back(s) ==
    /\ req[s].pc = "find_one"
    /\ \E outcome \in DriverOutcomes :
         IF outcome = "ok"
         THEN LET created_product == find_one(products, req[s].inserted_id) IN
                /\ pool' = PoolAfter(pool, outcome)
                /\ IF ProductModelValid(created_product)
                   THEN /\ resp' = CreateResp(req[s].input, 201, "ok",
                                              ProductModel(created_product),
                                              {"insert_one", "find_one"})
                        /\ created' = Append(created, ProductModel(created_product))
                   ELSE /\ resp' = CreateResp(req[s].input, 500, "response_validation",
                                              None, {"insert_one", "find_one"})
                        /\ UNCHANGED created
                /\ UNCHANGED ioFailed
         ELSE /\ resp' = CreateResp(req[s].input, 500, "storage", None,
                                    {"insert_one", "find_one"})
              /\ ioFailed' = TRUE
              /\ UNCHANGED <<pool, created>>
    /\ req' = [req EXCEPT ![s] = [pc |-> "idle"]]
    /\ UNCHANGED <<client, db, phase, products, oid>>

\* ---- GET /api/products ----
ListResp(status, cause, body, io) ==
    [op |-> "list_all", status |-> status, cause |-> cause, body |-> body, io |-> io]

get_all_products ==
    /\ phase = "running"
    /\ IF get_product_collection(db) = None
       THEN /\ resp' = ListResp(500, "unavailable", None, {})
            /\ UNCHANGED <<pool, ioFailed>>
       ELSE \E outcome \in DriverOutcomes :
              IF outcome = "ok"
              THEN /\ pool' = PoolAfter(pool, outcome)
                   /\ IF \A i \in 1..Len(products) : ProductModelValid(products[i])
                      THEN resp' = ListResp(200, "ok",
                                            [i \in 1..Len(products) |-> ProductModel(products[i])],
                                            {"find"})
                      ELSE resp' = ListResp(500, "response_validation", None, {"find"})
                   /\ UNCHANGED ioFailed
              ELSE /\ resp' = ListResp(500, "storage", None, {"find"})
                   /\ ioFailed' = TRUE
                   /\ UNCHANGED pool
    /\ UNCHANGED <<client, db, phase, products, oid, req, created>>

Next ==
    \/ get_db
    \/ close
    \/ ping
    \/ lifespan_startup
    \/ lifespan_shutdown
    \/ \E s \in Slots, p \in Payloads : create_product_begin(s, p)
    \/ \E s \in Slots : create_product_inserted(s)
    \/ \E s \in Slots : create_product_read_back(s)
    \/ get_all_products

Spec == Init /\ [][Next]_vars

\* ======================= properties =======================
NegativeField(p) ==
    \/ "price" \in DOMAIN p /\ p.price < 0
    \/ "stock_quantity" \in DOMAIN p /\ p.stock_quantity < 0

MissingRequired(p) == \E f \in RequiredFields : f \notin DOMAIN p

InputShapeViolated(p) == NegativeField(p) \/ MissingRequired(p)

ValidInput(p) == ~MissingRequired(p) /\ p.price >= 0 /\ p.stock_quantity >= 0

AllIdle == \A s \in Slots : req[s].pc = "idle"

Elems(seq) == {seq[i] : i \in DOMAIN seq}

C2_InvalidCreateTouchesNoStore ==
    /\ (resp.op = "create" /\ InputShapeViolated(resp.input)) => resp.io = {}
    /\ \A s \in Slots : req[s].pc # "idle" => ~InputShapeViolated(req[s].input)
    /\ \A i \in DOMAIN products : ~NegativeField(products[i])

\* C3: with no create in flight, no store round trip failed and a handle
\* present, a list_all succeeds with 200 and returns exactly the records
\* returned by the successful creates, whatever invalid creates came before.
C3_ListAfterInvalidCreates ==
    [][(get_all_products /\ db # None /\ AllIdle /\ ~ioFailed')
         => (resp'.status = 200 /\ Elems(resp'.body) = Elems(created))]_vars

\* C4: a create with all required fields present, price >= 0 and
\* stock_quantity >= 0, on a connection that works, succeeds with 201 and
\* returns a record with a non-empty string identifier, a created_at, and
\* the input's fields, image_urls being the empty list when omitted.
C4_ValidCreateEchoesInput ==
    (resp.op = "create" /\ ValidInput(resp.input) /\ db # None /\ resp.cause # "storage")
      => /\ resp.status = 201
         /\ Len(resp.body._id) > 0
         /\ \A i \in DOMAIN resp.body._id : resp.body._id[i] \in Elems(HexDigits)
         /\ "created_at" \in DOMAIN resp.body
         /\ resp.body.name = resp.input.name
         /\ resp.body.description = resp.input.description
         /\ resp.body.price = resp.input.price
         /\ resp.body.stock_quantity = resp.input.stock_quantity
         /\ resp.body.category = resp.input.category
         /\ resp.body.image_urls = IF "image_urls" \in DOMAIN resp.input
                                   THEN resp.input.image_urls ELSE JsonList(<<>>)

\* C5: the identifiers returned by successful creates are pairwise
\* different, every returned record stays in the collection, and every
\* list_all result contains every record returned before it.
C5_DistinctIdsNothingLost ==
    /\ \A i, j \in DOMAIN created : i # j => created[i]._id # created[j]._id
    /\ \A i \in DOMAIN created :
         \E j \in DOMAIN products : ProductModel(products[j]) = created[i]
    /\ (resp.op = "list_all" /\ resp.status = 200)
         => \A i \in DOMAIN created : created[i] \in Elems(resp.body)

C5_Witness ==
    /\ Len(created) = 2
    /\ created[1]._id # created[2]._id
    /\ [created[1] EXCEPT !._id = <<>>] = [created[2] EXCEPT !._id = <<>>]
    /\ resp.op = "list_all"
    /\ resp.status = 200
    /\ Len(resp.body) = 2

C7_PingIsBoolean ==
    resp.op = "ping" =>
      /\ resp.ret \in BOOLEAN
      /\ ~resp.raised
      /\ resp.before = "Unusable" => (~resp.ret /\ resp.io = {})
      /\ resp.outcome \in {"error", "timeout"} => ~resp.ret
      /\ resp.ret => resp.outcome = "ok"

C7_Witness ==
    /\ resp.op = "ping"
    /\ resp.outcome = "timeout"
    /\ ~resp.ret

\* C8: a close() of a manager that is already Closed, or Unusable, raises
\* nothing, releases nothing and leaves the manager as it was.
C8_CloseIdempotent ==
    [][((close \/ lifespan_shutdown) /\ ManagerState \in {"Closed", "Unusable"})
         => /\ ~resp'.raised
            /\ ~resp'.released
            /\ client' = client
            /\ db' = db
            /\ pool' = pool]_vars

C8_Witness ==
    /\ resp.op = "close"
    /\ resp.before = "Closed"
    /\ ~resp.raised
    /\ ManagerState = "Closed"

\* C9: Closed is never left and hands out no handle; Unusable never becomes
\* Usable.
C9_ClosedIsTerminal ==
    [][/\ ManagerState = "Closed" => ManagerState' = "Closed"
       /\ (get_db /\ ManagerState = "Closed") => resp'.ret = None
       /\ ManagerState = "Unusable" => ManagerState' # "Usable"]_vars

\* C10: the record a create returns is the document that same request
\* inserted: it carries the request's own identifier and field values,
\* however the round trips of other creates interleave.
C10_ReadBackIsOwn ==
    [][\A s \in Slots :
         (req[s].pc = "find_one" /\ req'[s].pc = "idle" /\ resp'.status = 201)
           => /\ resp'.input = req[s].input
              /\ resp'.body._id = ObjectIdStr(req[s].inserted_id)
              /\ \A f \in DOMAIN req[s].product_dict :
                   resp'.body[f] = req[s].product_dict[f]]_vars

C10_Witness ==
    /\ resp.op = "create"
    /\ resp.status = 201
    /\ resp.body._id = ObjectIdStr(1)
    /\ \E s \in Slots : req[s].pc = "find_one" /\ req[s].inserted_id = 2
====
